---- MODULE Spec2Model ----
(***************************************************************************)
(* Model of src/bot.py: the P/L calculation (calc_pl), the journal row     *)
(* construction and append (append_journal_row) and the /journal slash     *)
(* command handler (journal).                                              *)
(*                                                                         *)
(* Python strings are sequences of one-character strings, so that lower(), *)
(* upper(), strip() and str() are computed and not assumed.  Python values *)
(* (None, float, str) are records with a kind field k.  Floats are exact   *)
(* rationals n/d in lowest terms with d > 0; rounding is not modelled.     *)
(***************************************************************************)
EXTENDS Integers, Sequences, FiniteSets, TLC

VARIABLES
    call,      \* SpecCore: one direct call of calc_pl or append_journal_row
    ws,        \* the worksheet: the sequence of its rows
    pc,        \* journal: where each interaction's handler is suspended
    args,      \* journal: the command arguments of each interaction
    is_done,   \* journal: interaction.response.is_done() of each interaction
    err,       \* journal: the exception the handler's except clause caught
    sent,      \* journal: the messages delivered to the user, in order
    escaped,   \* journal: the exception that left the handler, if any
    appends,   \* journal: number of ws.append_row requests issued
    built,     \* journal: the row handed to ws.append_row, if any
    stored     \* journal: whether the spreadsheet service accepted that request

vars == <<call, ws, pc, args, is_done, err, sent, escaped, appends, built, stored>>

----------------------------------------------------------------------------
(* Bounds *)

\* prices range over -1 .. MaxPrice
MaxPrice == 2
\* number of concurrent /journal interactions
MaxInv == 2

----------------------------------------------------------------------------
(* Python values *)

None == [k |-> "none", n |-> 0, d |-> 1, s |-> <<>>]

Str(chars) == [k |-> "str", n |-> 0, d |-> 1, s |-> chars]

RECURSIVE Gcd(_, _)
Gcd(a, b) == IF b = 0 THEN a ELSE Gcd(b, a % b)

Abs(x) == IF x < 0 THEN -x ELSE x

\* the float n/d (d # 0), in lowest terms with a positive denominator
Float(n, d) ==
    LET g == Gcd(Abs(n), Abs(d))
        sgn == IF d < 0 THEN -1 ELSE 1
    IN  [k |-> "num", n |-> sgn * (n \div g), d |-> Abs(d) \div g, s |-> <<>>]

Sub(a, b) == Float(a.n * b.d - b.n * a.d, a.d * b.d)

Div(a, b) == Float(a.n * b.d, a.d * b.n)

Mul(a, b) == Float(a.n * b.n, a.d * b.d)

----------------------------------------------------------------------------
(* Python str methods *)

LowerChars == <<"a","b","c","d","e","f","g","h","i","j","k","l","m",
                "n","o","p","q","r","s","t","u","v","w","x","y","z">>

UpperChars == <<"A","B","C","D","E","F","G","H","I","J","K","L","M",
                "N","O","P","Q","R","S","T","U","V","W","X","Y","Z">>

Whitespace == {" ", "\t", "\n"}

lower_char(c) ==
    IF \E i \in 1..Len(UpperChars) : UpperChars[i] = c
    THEN LowerChars[CHOOSE i \in 1..Len(UpperChars) : UpperChars[i] = c]
    ELSE c

upper_char(c) ==
    IF \E i \in 1..Len(LowerChars) : LowerChars[i] = c
    THEN UpperChars[CHOOSE i \in 1..Len(LowerChars) : LowerChars[i] = c]
    ELSE c

lower(str) == [i \in 1..Len(str) |-> lower_char(str[i])]

upper(str) == [i \in 1..Len(str) |-> upper_char(str[i])]

RECURSIVE lstrip(_)
lstrip(str) ==
    IF str # <<>> /\ Head(str) \in Whitespace THEN lstrip(Tail(str)) ELSE str

RECURSIVE rstrip(_)
rstrip(str) ==
    IF str # <<>> /\ str[Len(str)] \in Whitespace
    THEN rstrip(SubSeq(str, 1, Len(str) - 1))
    ELSE str

strip(str) == rstrip(lstrip(str))

Digits == <<"0","1","2","3","4","5","6","7","8","9">>

RECURSIVE NatToStr(_)
NatToStr(n) ==
    IF n < 10 THEN <<Digits[n + 1]>>
    ELSE NatToStr(n \div 10) \o <<Digits[(n % 10) + 1]>>

\* str(int)
IntToStr(n) == IF n < 0 THEN <<"-">> \o NatToStr(-n) ELSE NatToStr(n)

\* %0wd
RECURSIVE ZeroPad(_, _)
ZeroPad(chars, w) == IF Len(chars) >= w THEN chars ELSE ZeroPad(<<"0">> \o chars, w)

\* datetime.strftime("%Y-%m-%d %H:%M:%S")
strftime(t) ==
    ZeroPad(NatToStr(t.Y), 4) \o <<"-">> \o ZeroPad(NatToStr(t.m), 2) \o <<"-">>
    \o ZeroPad(NatToStr(t.d), 2) \o <<" ">> \o ZeroPad(NatToStr(t.H), 2) \o <<":">>
    \o ZeroPad(NatToStr(t.M), 2) \o <<":">> \o ZeroPad(NatToStr(t.S), 2)

----------------------------------------------------------------------------
(* calc_pl *)

LONG == <<"l","o","n","g">>

SHORT == <<"s","h","o","r","t">>

\* mutant of not_closable: only price_open is tested
not_closable_open_only(price_open, price_close) == price_open = None

\* if price_open is None or price_close is None
not_closable(price_open, price_close) == price_open = None \/ price_close = None

\* pos in ("long", "short"), as calc_pl tests it
calc_valid_position(pos) == pos \in {LONG, SHORT}

\* mutant of gain_loss: the position side is ignored
gain_loss_long_only(pos, price_open, price_close) == Sub(price_close, price_open)

\* gl = (price_close - price_open) if pos == "long" else (price_open - price_close)
gain_loss(pos, price_open, price_close) ==
    IF pos = LONG THEN Sub(price_close, price_open) ELSE Sub(price_open, price_close)

\* mutant of gain_loss_pct: a ratio, not a percentage
gain_loss_ratio(gl, price_open) ==
    IF price_open.n # 0 THEN Div(gl, price_open) ELSE Float(0, 1)

\* gl_pct = (gl / price_open) * 100 if price_open != 0 else 0.0
gain_loss_pct(gl, price_open) ==
    IF price_open.n # 0 THEN Mul(Div(gl, price_open), Float(100, 1)) ELSE Float(0, 1)

\* exc is the exception raised ("none" when the call returns)
calc_pl(position, price_open, price_close) ==
    IF not_closable(price_open, price_close)
    THEN [exc |-> "none", gl |-> None, gl_pct |-> None]
    ELSE LET pos == lower(position)
         IN  IF ~calc_valid_position(pos)
             THEN [exc |-> "ValueError", gl |-> None, gl_pct |-> None]
             ELSE LET gl == gain_loss(pos, price_open, price_close)
                  IN  [exc |-> "none", gl |-> gl,
                       gl_pct |-> gain_loss_pct(gl, price_open)]

----------------------------------------------------------------------------
(* append_journal_row *)

HeaderNames == <<"timestamp_local", "discord_user", "message_id", "ticker",
                 "position", "price_open", "price_close", "gain_loss", "gain_loss%">>

\* the header row written to A1:I1 when the worksheet is created; a header
\* cell holds its column name whole
HeaderRow == [i \in 1..Len(HeaderNames) |->
                 [k |-> "hdr", n |-> 0, d |-> 1, s |-> <<HeaderNames[i]>>]]

\* ticker = ticker.upper().strip()
normalize_ticker(ticker) == strip(upper(ticker))

\* mutant of normalize_position: no strip
normalize_position_no_strip(position) == lower(position)

\* position = position.lower().strip()
normalize_position(position) == strip(lower(position))

\* mutant of row_valid_position: any non-empty position passes
row_valid_position_nonempty(position) == position # <<>>

\* position in ("long", "short"), as append_journal_row tests it
row_valid_position(position) == position \in {LONG, SHORT}

\* mutant of cell: None is written as it is
cell_raw(v) == v

\* ("" if v is None else v)
cell(v) == IF v = None THEN Str(<<>>) ELSE v

make_row(ts, user, message_id, ticker, position, price_open, price_close, gl, gl_pct) ==
    << Str(ts), Str(user), Str(IntToStr(message_id)), Str(ticker), Str(position),
       price_open, cell(price_close), cell(gl), cell(gl_pct) >>

\* mutant of append_row: the row is written over the last data row
append_row_overwrite(sheet, row) ==
    IF Len(sheet) > 1 THEN [sheet EXCEPT ![Len(sheet)] = row] ELSE Append(sheet, row)

\* ws.append_row(row, value_input_option="USER_ENTERED")
append_row(sheet, row) == Append(sheet, row)

NoRow == <<>>

\* The result records what happened: exc the exception raised, calc_called
\* whether calc_pl was called and calc_exc what it raised, row the row handed
\* to ws.append_row (NoRow when none was), requests the number of append
\* requests issued, and sheet the worksheet afterwards.  store_ok is whether
\* the spreadsheet service accepts the append request.
append_journal_row(sheet, user, message_id, ticker, position, price_open, price_close, now, store_ok) ==
    LET ts  == strftime(now)
        tk  == normalize_ticker(ticker)
        pos == normalize_position(position)
    IN  IF ~row_valid_position(pos)
        THEN [exc |-> "ValueError", calc_called |-> FALSE, calc_exc |-> "none",
              position |-> pos, row |-> NoRow, requests |-> 0, sheet |-> sheet]
        ELSE LET r == calc_pl(pos, price_open, price_close)
             IN  IF r.exc # "none"
                 THEN [exc |-> r.exc, calc_called |-> TRUE, calc_exc |-> r.exc,
                       position |-> pos, row |-> NoRow, requests |-> 0, sheet |-> sheet]
                 ELSE LET row == make_row(ts, user, message_id, tk, pos, price_open,
                                          price_close, r.gl, r.gl_pct)
                      IN  [exc |-> IF store_ok THEN "none" ELSE "APIError",
                           calc_called |-> TRUE, calc_exc |-> "none",
                           position |-> pos, row |-> row, requests |-> 1,
                           sheet |-> IF store_ok THEN append_row(sheet, row) ELSE sheet]

----------------------------------------------------------------------------
(* Inputs *)

Prices == {Float(p, 1) : p \in -1..MaxPrice} \cup {Float(100, 1), Float(110, 1), Float(1, 2)}

OptPrices == Prices \cup {None}

Words == { LONG, SHORT, <<"n","e","u","t","r","a","l">>, <<"l","o"," ","n","g">>, <<>> }

capitalize(str) == IF str = <<>> THEN str ELSE <<upper_char(Head(str))>> \o Tail(str)

\* whitespace before and after
Pads == { << <<>>, <<>> >>, << <<" ">>, <<" ">> >>, << <<"\t", " ">>, <<>> >>,
          << <<>>, <<"\n">> >> }

PositionStrings ==
    { pad[1] \o v \o pad[2] : pad \in Pads,
                               v \in UNION { {w, upper(w), capitalize(w)} : w \in Words } }

Tickers == { <<" "," ","e","m","t","k"," ">>, <<"v","W","o","\n">> }

MessageIds == {7, 1205}

Users == { <<"a","n","n","#","0">> }

Clock == { [Y |-> 2025, m |-> 3, d |-> 9, H |-> 8, M |-> 5, S |-> 0],
           [Y |-> 2025, m |-> 12, d |-> 31, H |-> 23, M |-> 59, S |-> 59] }

\* app_commands.Choice values of the position parameter
Choices == {LONG, SHORT}

Interactions == 1..MaxInv

\* interaction.id
interaction_id(i) == 1000 + i

\* f"{interaction.user.name}#{interaction.user.discriminator}"
interaction_user(i) == <<"u">> \o NatToStr(i) \o <<"#">> \o <<"0">>

----------------------------------------------------------------------------
(* The worksheet at start-up and the idle handler state *)

NoArgs == [ticker |-> <<>>, position |-> <<>>, price_open |-> None, price_close |-> None]

NoResult == [exc |-> "none", gl |-> None, gl_pct |-> None, calc_called |-> FALSE,
             calc_exc |-> "none", position |-> <<>>, row |-> NoRow, requests |-> 0]

NoCall == [fn |-> "none", user |-> <<>>, message_id |-> 0, ticker |-> <<>>,
           position |-> <<>>, price_open |-> None, price_close |-> None,
           now |-> CHOOSE t \in Clock : TRUE, store_ok |-> TRUE,
           done |-> FALSE, res |-> NoResult]

\* the worksheet is found, or created with the header row
InitSheet == ws = <<HeaderRow>>

InitJournal ==
    /\ pc = [i \in Interactions |-> "idle"]
    /\ args = [i \in Interactions |-> NoArgs]
    /\ is_done = [i \in Interactions |-> FALSE]
    /\ err = [i \in Interactions |-> "none"]
    /\ sent = [i \in Interactions |-> <<>>]
    /\ escaped = [i \in Interactions |-> "none"]
    /\ appends = [i \in Interactions |-> 0]
    /\ built = [i \in Interactions |-> NoRow]
    /\ stored = [i \in Interactions |-> FALSE]

journal_vars == <<pc, args, is_done, err, sent, escaped, appends, built, stored>>

----------------------------------------------------------------------------
(* SpecCore: one direct call of calc_pl or of append_journal_row, on inputs *)
(* drawn by the initial state                                              *)

CalcInputs ==
    { [NoCall EXCEPT !.fn = "calc_pl", !.position = p, !.price_open = po,
                     !.price_close = pcl] :
      p \in PositionStrings, po \in OptPrices, pcl \in OptPrices }

RowInputs ==
    { [NoCall EXCEPT !.fn = "append_journal_row", !.user = u, !.message_id = id,
                     !.ticker = tk, !.position = p, !.price_open = po,
                     !.price_close = pcl, !.now = t, !.store_ok = ok] :
      u \in Users, id \in MessageIds, tk \in Tickers, p \in PositionStrings,
      po \in Prices, pcl \in OptPrices, t \in Clock, ok \in BOOLEAN }

InitCore ==
    /\ call \in CalcInputs \cup RowInputs
    /\ InitSheet
    /\ InitJournal

CallCalcPl ==
    /\ call.fn = "calc_pl" /\ ~call.done
    /\ LET r == calc_pl(call.position, call.price_open, call.price_close)
       IN  call' = [call EXCEPT !.done = TRUE,
                                !.res = [NoResult EXCEPT !.exc = r.exc, !.gl = r.gl,
                                                         !.gl_pct = r.gl_pct]]
    /\ UNCHANGED <<ws, journal_vars>>

CallAppendJournalRow ==
    /\ call.fn = "append_journal_row" /\ ~call.done
    /\ LET r == append_journal_row(ws, call.user, call.message_id, call.ticker,
                                   call.position, call.price_open, call.price_close,
                                   call.now, call.store_ok)
       IN  /\ call' = [call EXCEPT !.done = TRUE,
                                   !.res = [NoResult EXCEPT !.exc = r.exc,
                                                !.calc_called = r.calc_called,
                                                !.calc_exc = r.calc_exc,
                                                !.position = r.position,
                                                !.row = r.row,
                                                !.requests = r.requests]]
           /\ ws' = r.sheet
    /\ UNCHANGED journal_vars

NextCore == CallCalcPl \/ CallAppendJournalRow

SpecCore == InitCore /\ [][NextCore]_vars

----------------------------------------------------------------------------
(* Spec: the /journal command handler, one coroutine per interaction.  An  *)
(* action is the code the event loop runs between two awaits; the call of  *)
(* append_journal_row is synchronous and runs inside one action.           *)

JournalTickers == { <<" ","e","m","t","k">> }

JournalPrices == { Float(100, 1) }

JournalOptPrices == { None, Float(110, 1) }

\* datetime.datetime.now(tz) as the handlers read it
JournalClock == { [Y |-> 2025, m |-> 3, d |-> 9, H |-> 8, M |-> 5, S |-> 0] }

\* mutant of except_clause: the failure always goes through the response
except_clause_response(done) == "fail_response"

\* except Exception as e: the failure message goes through the follow-up
\* channel if interaction.response.is_done(), else through the response
except_clause(done) == IF done THEN "fail_followup" ELSE "fail_response"

Message(via, kind, exc) == [via |-> via, kind |-> kind, exc |-> exc]

\* the command is dispatched and the handler awaits interaction.response.defer
Invoke(i) ==
    /\ pc[i] = "idle"
    /\ \E tk \in JournalTickers, p \in Choices, po \in JournalPrices,
          pcl \in JournalOptPrices :
          args' = [args EXCEPT ![i] = [ticker |-> tk, position |-> p,
                                       price_open |-> po, price_close |-> pcl]]
    /\ pc' = [pc EXCEPT ![i] = "defer"]
    /\ UNCHANGED <<call, ws, is_done, err, sent, escaped, appends, built, stored>>

\* defer returns or raises; on return the handler calls append_journal_row and
\* then awaits the follow-up send of the acknowledgment or of the failure
DeferReturns(i) ==
    /\ pc[i] = "defer"
    /\ \E ok \in BOOLEAN, now \in JournalClock, store_ok \in BOOLEAN :
          IF ok
          THEN LET r == append_journal_row(ws, interaction_user(i), interaction_id(i),
                                           args[i].ticker, args[i].position,
                                           args[i].price_open, args[i].price_close,
                                           now, store_ok)
               IN  /\ is_done' = [is_done EXCEPT ![i] = TRUE]
                   /\ ws' = r.sheet
                   /\ appends' = [appends EXCEPT ![i] = @ + r.requests]
                   /\ built' = [built EXCEPT ![i] = r.row]
                   /\ stored' = [stored EXCEPT ![i] = r.requests > 0 /\ store_ok]
                   /\ err' = [err EXCEPT ![i] = r.exc]
                   /\ pc' = [pc EXCEPT ![i] = IF r.exc = "none" THEN "ack"
                                              ELSE except_clause(TRUE)]
          ELSE /\ err' = [err EXCEPT ![i] = "HTTPException(defer)"]
               /\ pc' = [pc EXCEPT ![i] = except_clause(is_done[i])]
               /\ UNCHANGED <<ws, is_done, appends, built, stored>>
    /\ UNCHANGED <<call, args, sent, escaped>>

\* the follow-up send of the acknowledgment returns or raises
AckReturns(i) ==
    /\ pc[i] = "ack"
    /\ \E ok \in BOOLEAN :
          IF ok
          THEN /\ sent' = [sent EXCEPT ![i] = Append(@, Message("followup", "journaled", "none"))]
               /\ pc' = [pc EXCEPT ![i] = "done"]
               /\ err' = err
          ELSE /\ err' = [err EXCEPT ![i] = "HTTPException(followup)"]
               /\ pc' = [pc EXCEPT ![i] = except_clause(is_done[i])]
               /\ sent' = sent
    /\ UNCHANGED <<call, ws, args, is_done, escaped, appends, built, stored>>

\* the send of the failure message returns, or raises out of the handler
FailureReturns(i) ==
    /\ pc[i] \in {"fail_followup", "fail_response"}
    /\ \E ok \in BOOLEAN :
          IF ok
          THEN /\ sent' = [sent EXCEPT ![i] = Append(@,
                              Message(IF pc[i] = "fail_followup" THEN "followup"
                                      ELSE "response", "failed", err[i]))]
               /\ escaped' = escaped
          ELSE /\ escaped' = [escaped EXCEPT ![i] = "HTTPException(failure message)"]
               /\ sent' = sent
    /\ pc' = [pc EXCEPT ![i] = "done"]
    /\ UNCHANGED <<call, ws, args, is_done, err, appends, built, stored>>

journal(i) == Invoke(i) \/ DeferReturns(i) \/ AckReturns(i) \/ FailureReturns(i)

Init ==
    /\ call = NoCall
    /\ InitSheet
    /\ InitJournal

Next == \E i \in Interactions : journal(i)

Spec == Init /\ [][Next]_vars

----------------------------------------------------------------------------
(* Vocabulary of the properties *)

CalcDone == call.fn = "calc_pl" /\ call.done

RowDone == call.fn = "append_journal_row" /\ call.done

\* str is word w in any letter case, with whitespace before and after it
IsPadded(str, w) ==
    \E a \in 0..Len(str), b \in 0..Len(str) :
        /\ a + Len(w) + b = Len(str)
        /\ \A i \in 1..a : str[i] \in Whitespace
        /\ \A i \in 1..b : str[Len(str) - i + 1] \in Whitespace
        /\ \A i \in 1..Len(w) : lower_char(str[a + i]) = w[i]

\* the literal a position string stands for, or <<>> when it stands for none
LiteralOf(str) ==
    IF IsPadded(str, LONG) THEN LONG ELSE IF IsPadded(str, SHORT) THEN SHORT ELSE <<>>

IsNum(v) == v.k = "num" /\ v.d > 0

IsAbsent(v) == v = None

IsEmptyCell(v) == v.k = "str" /\ v.s = <<>>

\* the float v is the rational n/d
RatEq(v, n, d) == IsNum(v) /\ v.n * d = n * v.d

Col(name) == CHOOSE i \in 1..Len(HeaderNames) : HeaderNames[i] = name

----------------------------------------------------------------------------
(* C1 *)

\* C1 (as claimed): for every position that is not "long" or "short" in any
\* letter case (surrounding whitespace allowed for), calc_pl raises ValueError
\* and append_journal_row raises ValueError, whatever price_open and
\* price_close are, price_close absent included.
C1_InvalidPositionRaises ==
    (call.done /\ LiteralOf(call.position) = <<>> /\ call.price_open # None)
        => call.res.exc = "ValueError"

----------------------------------------------------------------------------
(* C2 *)

\* C2: with both prices present, calc_pl returns gain_loss = price_close -
\* price_open for a long position and price_open - price_close for a short one.
C2_GainLoss ==
    (CalcDone /\ call.price_open # None /\ call.price_close # None
              /\ lower(call.position) \in {LONG, SHORT})
        => LET po == call.price_open
               pcl == call.price_close
           IN  /\ call.res.exc = "none"
               /\ lower(call.position) = LONG
                    => RatEq(call.res.gl, pcl.n * po.d - po.n * pcl.d, po.d * pcl.d)
               /\ lower(call.position) = SHORT
                    => RatEq(call.res.gl, po.n * pcl.d - pcl.n * po.d, po.d * pcl.d)

\* long 100 -> 110 gives 10
C2_Witness ==
    /\ CalcDone /\ call.position = <<"L","o","n","g">>
    /\ call.price_open = Float(100, 1) /\ call.price_close = Float(110, 1)
    /\ call.res.gl = Float(10, 1)

----------------------------------------------------------------------------
(* C3 *)

\* C3: for a valid position and both prices present, gain_loss_percent is
\* gain_loss / price_open * 100 when price_open is not zero, and exactly 0,
\* with no error and gain_loss computed as usual, when price_open is zero.
C3_Percent ==
    (CalcDone /\ call.price_open # None /\ call.price_close # None
              /\ lower(call.position) \in {LONG, SHORT})
        => LET po == call.price_open
               pcl == call.price_close
               gl == call.res.gl
               pct == call.res.gl_pct
           IN  /\ call.res.exc = "none"
               /\ IsNum(gl) /\ IsNum(pct)
               /\ po.n # 0 => pct.n * gl.d * po.n = gl.n * po.d * 100 * pct.d
               /\ po.n = 0 => /\ pct.n = 0
                              /\ RatEq(gl, IF lower(call.position) = LONG
                                           THEN pcl.n ELSE -pcl.n, pcl.d)

\* long 0 -> 2: gain_loss 2, percentage 0
C3_Witness ==
    /\ CalcDone /\ call.position = LONG
    /\ call.price_open = Float(0, 1) /\ call.price_close = Float(2, 1)
    /\ call.res.gl = Float(2, 1) /\ call.res.gl_pct = Float(0, 1)

----------------------------------------------------------------------------
(* C4 *)

\* C4 (as claimed): for every input calc_pl accepts and every row
\* append_journal_row builds, gain_loss and gain_loss_percent are both absent
\* exactly when price_close is absent, and both present otherwise.
C4_AbsentIffCloseAbsent ==
    /\ (CalcDone /\ call.res.exc = "none")
         => /\ IsAbsent(call.res.gl) <=> call.price_close = None
            /\ IsAbsent(call.res.gl_pct) <=> call.price_close = None
    /\ (RowDone /\ call.res.row # NoRow)
         => /\ IsEmptyCell(call.res.row[Col("gain_loss")]) <=> call.price_close = None
            /\ IsEmptyCell(call.res.row[Col("gain_loss%")]) <=> call.price_close = None

\* C4 (amended): gain_loss and gain_loss_percent are present together or
\* absent together; calc_pl returns them absent exactly when price_close or
\* price_open is absent, and a row built by append_journal_row, whose
\* price_open is always present, has them empty exactly when price_close is
\* absent.
C4_AbsentTogether ==
    /\ (CalcDone /\ call.res.exc = "none")
         => /\ IsAbsent(call.res.gl) <=> IsAbsent(call.res.gl_pct)
            /\ IsAbsent(call.res.gl) <=> (call.price_close = None \/ call.price_open = None)
            /\ ~IsAbsent(call.res.gl) => IsNum(call.res.gl) /\ IsNum(call.res.gl_pct)
    /\ (RowDone /\ call.res.row # NoRow)
         => LET gl == call.res.row[Col("gain_loss")]
                pct == call.res.row[Col("gain_loss%")]
            IN  /\ IsEmptyCell(gl) <=> IsEmptyCell(pct)
                /\ IsEmptyCell(gl) <=> call.price_close = None
                /\ ~IsEmptyCell(gl) => IsNum(gl) /\ IsNum(pct)

\* calc_pl accepted an absent price_open with a present price_close
C4_Witness ==
    /\ CalcDone /\ call.res.exc = "none"
    /\ call.price_open = None /\ call.price_close = Float(2, 1)
    /\ IsAbsent(call.res.gl) /\ IsAbsent(call.res.gl_pct)

----------------------------------------------------------------------------
(* C5 *)

\* C5: append_journal_row accepts every position string that is "long" or
\* "short" in any letter case with whitespace around it, and the position cell
\* of the row it builds is the lower-case trimmed literal.
C5_PositionNormalized ==
    (RowDone /\ LiteralOf(call.position) # <<>>)
        => /\ call.res.exc = IF call.store_ok THEN "none" ELSE "APIError"
           /\ call.res.row # NoRow
           /\ call.res.row[Col("position")] = Str(LiteralOf(call.position))
           /\ call.store_ok => ws[Len(ws)][Col("position")] = Str(LiteralOf(call.position))

\* " Long " is journaled as "long"
C5_Witness ==
    /\ RowDone /\ call.position = <<" ","L","o","n","g"," ">>
    /\ call.res.exc = "none"
    /\ ws[Len(ws)][Col("position")] = Str(LONG)

----------------------------------------------------------------------------
(* C7 *)

DigitValue(c) == (CHOOSE i \in 1..Len(Digits) : Digits[i] = c) - 1

RECURSIVE StrToNat(_)
StrToNat(chars) ==
    IF chars = <<>> THEN 0
    ELSE 10 * StrToNat(SubSeq(chars, 1, Len(chars) - 1)) + DigitValue(chars[Len(chars)])

\* out is the text of str between its surrounding whitespace, in upper case
IsUpperTrimmed(out, str) ==
    \E a \in 0..Len(str), b \in 0..Len(str) :
        /\ a + Len(out) + b = Len(str)
        /\ \A i \in 1..a : str[i] \in Whitespace
        /\ \A i \in 1..b : str[Len(str) - i + 1] \in Whitespace
        /\ out # <<>> => out[1] \notin Whitespace /\ out[Len(out)] \notin Whitespace
        /\ \A i \in 1..Len(out) :
              /\ lower_char(out[i]) = lower_char(str[a + i])
              /\ \A j \in 1..Len(LowerChars) : out[i] # LowerChars[j]

\* C7: every row handed to the store has 9 cells in the header order, the
\* message id as a string, the ticker upper-cased and trimmed, and an empty
\* cell, never a number, for each absent value among price_close, gain_loss
\* and gain_loss_percent.
C7_RowShape ==
    (RowDone /\ call.res.row # NoRow)
        => LET row == call.res.row
           IN  /\ Len(row) = 9 /\ Len(row) = Len(HeaderRow)
               /\ row[Col("timestamp_local")].k = "str"
               /\ Len(row[Col("timestamp_local")].s) = 19
               /\ row[Col("discord_user")] = Str(call.user)
               /\ row[Col("message_id")].k = "str"
               /\ \A i \in 1..Len(row[Col("message_id")].s) :
                     \E j \in 1..Len(Digits) : row[Col("message_id")].s[i] = Digits[j]
               /\ StrToNat(row[Col("message_id")].s) = call.message_id
               /\ row[Col("ticker")].k = "str"
               /\ IsUpperTrimmed(row[Col("ticker")].s, call.ticker)
               /\ row[Col("position")] = Str(LiteralOf(call.position))
               /\ row[Col("price_open")] = call.price_open
               /\ row[Col("price_close")] =
                     IF call.price_close = None THEN Str(<<>>) ELSE call.price_close
               /\ call.price_close = None
                     => /\ IsEmptyCell(row[Col("gain_loss")])
                        /\ IsEmptyCell(row[Col("gain_loss%")])
               /\ \A i \in 1..Len(row) : row[i].k \in {"str", "num"}
               /\ call.store_ok => ws = <<HeaderRow, row>>

\* "  emtk " is stored as "EMTK", and an open position has three empty cells
C7_Witness ==
    /\ RowDone /\ call.res.exc = "none"
    /\ call.ticker = <<" "," ","e","m","t","k"," ">>
    /\ call.message_id = 1205
    /\ call.price_close = None
    /\ ws[2][4] = Str(<<"E","M","T","K">>)
    /\ ws[2][3] = Str(<<"1","2","0","5">>)
    /\ ws[2][7] = Str(<<>>) /\ ws[2][8] = Str(<<>>) /\ ws[2][9] = Str(<<>>)

----------------------------------------------------------------------------
(* C8 *)

\* C8: append_journal_row checks the normalized position before it calls
\* calc_pl, does not call calc_pl when the check fails, and calc_pl raises for
\* no position that passed the check.
C8_ChecksAgree ==
    /\ RowDone
         => /\ call.res.position \notin {LONG, SHORT}
                 => /\ ~call.res.calc_called
                    /\ call.res.exc = "ValueError"
                    /\ call.res.row = NoRow
            /\ call.res.position \in {LONG, SHORT}
                 => /\ call.res.calc_called
                    /\ call.res.calc_exc = "none"
                    /\ call.res.exc # "ValueError"
    /\ (CalcDone /\ call.position \in {LONG, SHORT}) => call.res.exc = "none"

\* "neutral" is rejected before calc_pl is called
C8_Witness ==
    /\ RowDone /\ call.position = <<"n","e","u","t","r","a","l">>
    /\ call.price_close # None
    /\ call.res.exc = "ValueError" /\ ~call.res.calc_called

----------------------------------------------------------------------------
(* C6 *)

\* the exceptions append_journal_row raises: row construction, spreadsheet append
AppendErrors == {"ValueError", "APIError"}

Kinds(i) == {sent[i][j].kind : j \in 1..Len(sent[i])}

----------------------------------------------------------------------------
(* C9 *)

RowsOf(i) == {j \in 1..Len(ws) : ws[j] # HeaderRow /\ ws[j][Col("message_id")] = Str(IntToStr(interaction_id(i)))}

\* C9: under any interleaving, each invocation issues at most one append
\* request and writes nothing else, so the rows added are exactly the rows of
\* the invocations whose append succeeded, each once and as it was built.
C9_OneAppendEach ==
    /\ ws[1] = HeaderRow
    /\ Len(ws) = 1 + Cardinality({i \in Interactions : stored[i]})
    /\ \A i \in Interactions :
          /\ appends[i] <= 1
          /\ stored[i] => appends[i] = 1
          /\ Cardinality(RowsOf(i)) = IF stored[i] THEN 1 ELSE 0
          /\ \A j \in RowsOf(i) : ws[j] = built[i]

\* two invocations interleaved, both stored, the second invoked one first
C9_Witness ==
    /\ MaxInv >= 2
    /\ stored[1] /\ stored[2] /\ Len(ws) = 3
    /\ ws[2] = built[2] /\ ws[3] = built[1]

----------------------------------------------------------------------------
(* C10 *)

\* C10 (as claimed): within one invocation the order is defer, append, reply,
\* the acknowledgment is sent only after the append succeeded, and a failure
\* message is sent only when the invocation appended no row.
C10_ReplyMatchesAppend ==
    \A i \in Interactions :
        /\ appends[i] > 0 => is_done[i]
        /\ sent[i] # <<>> => pc[i] = "done"
        /\ "journaled" \in Kinds(i) => stored[i]
        /\ "failed" \in Kinds(i) => ~stored[i]

====
